---- MODULE Spec2Model ----
(***************************************************************************)
(* BusTub buffer pool manager and LRU-K replacer                           *)
(* (src/src/buffer/buffer_pool_manager.cpp, src/src/buffer/lru_k_replacer.cpp). *)
(*                                                                         *)
(* Spec     : one client calling the buffer pool's public operations.      *)
(* SpecR    : the replacer alone, driven through its public operations.    *)
(* SpecConc : a latched client thread next to a thread inside DeletePage.  *)
(***************************************************************************)
EXTENDS Integers, Sequences, FiniteSets, TLC

\* ---------------------------------------------------------------- bounds
pool_size == 2          \* constructor argument pool_size (frames in pages_)
replacer_k == 2         \* constructor argument replacer_k
MaxPage == 4            \* page ids handed out / fetched: 0 .. MaxPage-1
MaxPin == 2             \* outstanding pins of one page the client takes
MaxData == 1            \* page bytes are abstracted to 0 (zeroed) .. MaxData
MaxWritePage == 0       \* the client writes the bytes of pages 0 .. MaxWritePage only
MaxConcPage == 1        \* SpecConc: both threads work on pages 0 .. MaxConcPage
MaxDelete == 1          \* DeletePage calls that find their page resident and unpinned
MaxChar == 2            \* key characters are 1 .. MaxChar
MaxKeyLen == 2          \* keys have 0 .. MaxKeyLen characters
MaxVal == 2             \* values put are 1 .. MaxVal
MaxTrieOps == 3         \* Put/Remove calls in one behaviour of SpecT

\* ------------------------------------------------------------- constants
INVALID_PAGE_ID == -1   \* sentinel page id
NoIter == -1            \* "no entry" in history_map_ / cache_map_
NoFrame == -1           \* "no entry" in page_table_

Max(a, b) == IF a >= b THEN a ELSE b
Min(a, b) == IF a <= b THEN a ELSE b
MaxOf(S) == CHOOSE x \in S : \A y \in S : y <= x
MinOf(S) == CHOOSE x \in S : \A y \in S : x <= y

Frames == 0 .. pool_size - 1          \* valid indices of pages_[]
RFrames == 0 .. pool_size             \* ids RecordAccess accepts (frame_id > replacer_size_ throws)
PageIds == 0 .. MaxPage - 1
FrameIdx == 0 .. Max(pool_size, MaxPage - 1)  \* every value a frame_id_t variable can take
Addr == 0 .. 2 * pool_size + 2        \* storage locations of std::list nodes

\* use_count_ is only ever compared with 0 and k_: counts above k_ + 1 are
\* kept as k_ + 1.
UseCap == replacer_k + 1

VARIABLES
  page_table,    \* page_table_ : page id -> frame id (NoFrame when absent)
  pages,         \* pages_[]    : per frame page_id_, pin_count_, is_dirty_, data_
  free_list,     \* free_list_  : std::list<int>, back is the last element
  replacer,      \* the LRUKReplacer object
  next_page_id,  \* next_page_id_
  disk,          \* the disk manager's stored bytes per page id
  crashed,       \* the process has aborted (memory fault, double free)
  pins,          \* per page: fetches/new returned minus successful unpins since resident
  first_order,   \* SpecR: the tracked frames, oldest first access first
  trie,          \* SpecT: the node store and the Trie handles the client holds
  ndelete,       \* DeletePage calls so far that went past the pin check
  dpc,           \* position of the thread that is inside DeletePage
  dl             \* that thread's locals: page_id, frame_id

vars == <<page_table, pages, free_list, replacer, next_page_id, disk, crashed,
          pins, first_order, trie, ndelete, dpc, dl>>

\* =================================================================
\* LRUKReplacer
\* =================================================================
\* A list is a sequence of nodes [a |-> storage location, f |-> frame id],
\* front first. history_map_ / cache_map_ hold iterators, that is storage
\* locations; an iterator whose node has been erased keeps its location and
\* dangles.

ReplacerInit ==
  [ use_count     |-> [f \in RFrames |-> 0],
    is_accessible |-> [f \in RFrames |-> FALSE],
    curr_size     |-> 0,
    history_list  |-> << >>,
    cache_list    |-> << >>,
    history_map   |-> [f \in RFrames |-> NoIter],
    cache_map     |-> [f \in RFrames |-> NoIter] ]

ListAddrs(l) == {l[i].a : i \in DOMAIN l}
ListFrames(l) == {l[i].f : i \in DOMAIN l}
Live(r) == ListAddrs(r.history_list) \cup ListAddrs(r.cache_list)
Referenced(r) == ({r.history_map[f] : f \in RFrames} \cup {r.cache_map[f] : f \in RFrames}) \ {NoIter}

\* operator new for a list node: any location not in use. Free locations no
\* iterator refers to are interchangeable, so one of them stands for all.
AllocChoices(r) ==
  LET free  == Addr \ Live(r)
      stale == free \cap Referenced(r)
      fresh == free \ stale
  IN  stale \cup (IF fresh = {} THEN {} ELSE {MinOf(fresh)})

DropAddr(l, a) == SelectSeq(l, LAMBDA n : n.a # a)
DropIndex(l, i) == SubSeq(l, 1, i - 1) \o SubSeq(l, i + 1, Len(l))
PushFront(l, f, a) == <<[a |-> a, f |-> f]>> \o l

\* Storage locations are never compared or ordered by the code, only
\* dereferenced: after each call they are renamed in the order in which the
\* lists and then the maps mention them, so that states differing only in the
\* naming of locations are one state.
MapSeq(r) == [i \in 1 .. 2 * (pool_size + 1) |->
                IF i % 2 = 1 THEN r.history_map[(i - 1) \div 2] ELSE r.cache_map[(i - 2) \div 2]]
Mentions(r) == [i \in 1 .. Len(r.history_list) |-> r.history_list[i].a]
                 \o [i \in 1 .. Len(r.cache_list) |-> r.cache_list[i].a]
                 \o MapSeq(r)
Canon(r) ==
  LET m      == Mentions(r)
      pos(a) == MinOf({i \in DOMAIN m : m[i] = a})
      ren(a) == IF a = NoIter THEN NoIter
                ELSE Cardinality({m[i] : i \in 1 .. pos(a) - 1} \ {NoIter})
      rl(l)  == [i \in DOMAIN l |-> [a |-> ren(l[i].a), f |-> l[i].f]]
  IN  [r EXCEPT !.history_list = rl(@), !.cache_list = rl(@),
                !.history_map = [f \in RFrames |-> ren(@[f])],
                !.cache_map = [f \in RFrames |-> ren(@[f])]]

\* std::list::erase(it). With a valid iterator the node is unlinked. Through
\* a dangling iterator the call is undefined: when the storage has been
\* reused, the node now living there is unlinked from whichever list holds
\* it; when it is still free, the call is a double free, which aborts or
\* goes unnoticed. A default-constructed iterator is a null dereference.
EraseNode(r, it) ==
  IF it = NoIter THEN {[res |-> "crash", r |-> r]}
  ELSE IF it \in ListAddrs(r.history_list)
       THEN {[res |-> "ok", r |-> [r EXCEPT !.history_list = DropAddr(@, it)]]}
  ELSE IF it \in ListAddrs(r.cache_list)
       THEN {[res |-> "ok", r |-> [r EXCEPT !.cache_list = DropAddr(@, it)]]}
  ELSE {[res |-> "crash", r |-> r], [res |-> "ok", r |-> r]}

\* lines 78-87: the access that makes use_count_ = k_
RecordAccessK(r1, frame_id) ==
  LET erased == IF r1.history_map[frame_id] # NoIter
                THEN EraseNode(r1, r1.history_map[frame_id])
                ELSE {[res |-> "ok", r |-> r1]}
  IN  UNION { IF e.res # "ok" THEN {e}
              ELSE LET r2 == [e.r EXCEPT !.history_map[frame_id] = NoIter]
                   IN  { [res |-> "ok",
                          r |-> [r2 EXCEPT !.cache_list = PushFront(@, frame_id, a),
                                           !.cache_map[frame_id] = a]]
                         : a \in AllocChoices(r2) }
              : e \in erased }

\* lines 88-92: an access beyond the k-th erases the cache node and keeps the
\* map entry
RecordAccessOverK(r1, frame_id) ==
  IF r1.cache_map[frame_id] # NoIter
  THEN EraseNode(r1, r1.cache_map[frame_id])
  ELSE {[res |-> "ok", r |-> r1]}

\* lines 93-98: an access before the k-th
RecordAccessUnderK(r1, frame_id) ==
  IF r1.history_map[frame_id] = NoIter
  THEN { [res |-> "ok",
          r |-> [r1 EXCEPT !.history_list = PushFront(@, frame_id, a),
                           !.history_map[frame_id] = a]]
         : a \in AllocChoices(r1) }
  ELSE {[res |-> "ok", r |-> r1]}

\* The set of outcomes [res, r] of RecordAccess(frame_id).
RecordAccess(r, frame_id) ==
  IF frame_id > pool_size THEN {[res |-> "throw", r |-> r]}
  ELSE LET r1 == [r EXCEPT !.use_count[frame_id] = Min(@ + 1, UseCap)]
           c  == r1.use_count[frame_id]
           os == IF c = replacer_k THEN RecordAccessK(r1, frame_id)
                 ELSE IF c > replacer_k THEN RecordAccessOverK(r1, frame_id)
                 ELSE RecordAccessUnderK(r1, frame_id)
       IN  {[res |-> o.res, r |-> Canon(o.r)] : o \in os}

\* SetEvictable without the early return for a frame that never appeared and
\* without the comparison with the flag the frame already has.
SetEvictableUnchecked(r, frame_id, set_evictable) ==
  IF frame_id > pool_size THEN [res |-> "throw", r |-> r]
  ELSE [res |-> "ok",
        r |-> [r EXCEPT !.curr_size = IF set_evictable THEN @ + 1 ELSE Max(@ - 1, 0),
                        !.is_accessible[frame_id] = set_evictable]]

SetEvictable(r, frame_id, set_evictable) ==
  IF frame_id > pool_size THEN [res |-> "throw", r |-> r]
  ELSE IF r.use_count[frame_id] = 0 THEN [res |-> "ok", r |-> r]
  ELSE LET d == IF ~r.is_accessible[frame_id] /\ set_evictable THEN 1
                ELSE IF r.is_accessible[frame_id] /\ ~set_evictable THEN -1
                ELSE 0
       IN  [res |-> "ok",
            r |-> [r EXCEPT !.curr_size = @ + d,
                            !.is_accessible[frame_id] = set_evictable]]

\* Index of the node Evict's backward scan stops at, 0 when it finds none.
ScanFromTail(l, acc) ==
  LET c == {i \in DOMAIN l : acc[l[i].f]}
  IN  IF c = {} THEN 0 ELSE MaxOf(c)

Evict(r) ==
  IF (\A f \in RFrames : r.history_map[f] = NoIter)
       /\ (\A f \in RFrames : r.cache_map[f] = NoIter)
  THEN [found |-> FALSE, frame_id |-> 0, r |-> r]
  ELSE LET hi == ScanFromTail(r.history_list, r.is_accessible)
           ci == ScanFromTail(r.cache_list, r.is_accessible)
       IN  IF hi # 0
           THEN LET f == r.history_list[hi].f
                IN  [found |-> TRUE, frame_id |-> f,
                     r |-> Canon([r EXCEPT !.history_map[f] = NoIter,
                                           !.use_count[f] = 0,
                                           !.is_accessible[f] = FALSE,
                                           !.curr_size = @ - 1,
                                           !.history_list = DropIndex(@, hi)])]
           ELSE IF ci # 0
           THEN LET f == r.cache_list[ci].f
                IN  [found |-> TRUE, frame_id |-> f,
                     r |-> Canon([r EXCEPT !.use_count[f] = 0,
                                           !.curr_size = @ - 1,
                                           !.is_accessible[f] = FALSE,
                                           !.cache_list = DropIndex(@, ci),
                                           !.cache_map[f] = NoIter])]
           ELSE [found |-> FALSE, frame_id |-> 0, r |-> r]

\* The set of outcomes [res, r] of Remove(frame_id).
Remove(r, frame_id) ==
  IF frame_id > pool_size THEN {[res |-> "throw", r |-> r]}
  ELSE IF ~r.is_accessible[frame_id] THEN {[res |-> "ok", r |-> r]}
  ELSE LET under  == r.use_count[frame_id] < replacer_k
           it     == IF under THEN r.history_map[frame_id] ELSE r.cache_map[frame_id]
       IN  { IF e.res # "ok" THEN e
             ELSE [res |-> "ok",
                   r |-> Canon([e.r EXCEPT !.history_map[frame_id] = IF under THEN NoIter ELSE @,
                                     !.cache_map[frame_id] = IF under THEN @ ELSE NoIter,
                                     !.use_count[frame_id] = 0,
                                     !.is_accessible[frame_id] = FALSE,
                                     !.curr_size = @ - 1])]
             : e \in EraseNode(r, it) }

Size(r) == r.curr_size

\* =================================================================
\* BufferPoolManager
\* =================================================================
\* The pool's members as one record s; every handler below is the set of
\* outcomes [s, ret, frame, io] it can end with: the members afterwards, the
\* value returned ("page", "none", "true", "false", "void"; "throw" when a
\* std::exception leaves it, "crash" when the process dies in it), the frame
\* handed out, and the disk manager calls it made, in order.

DiskIds == PageIds \cup {INVALID_PAGE_ID}

PageInit == [page_id |-> INVALID_PAGE_ID, pin_count |-> 0, is_dirty |-> FALSE, data |-> 0]

PoolInit ==
  [ page_table   |-> [p \in DiskIds |-> NoFrame],
    pages        |-> [f \in FrameIdx |-> PageInit],
    free_list    |-> [i \in 1 .. pool_size |-> i - 1],
    replacer     |-> ReplacerInit,
    disk         |-> [p \in PageIds |-> 0],
    next_page_id |-> 0 ]

Out(s, ret, frame, io) == [s |-> s, ret |-> ret, frame |-> frame, io |-> io]

\* pages_[frame_id] with frame_id >= pool_size lies past the array: the
\* access faults, or it lands in the memory behind the array, which then
\* holds what was stored there.
Wild(frame_id) == frame_id \notin Frames
MayFault(s, frame_id) == IF Wild(frame_id) THEN {Out(s, "crash", NoFrame, << >>)} ELSE {}

\* DiskManager::WritePage / ReadPage
WritePage(dk, page_id, data) == IF page_id \in PageIds THEN [dk EXCEPT ![page_id] = data] ELSE dk
ReadPage(dk, page_id) == dk[page_id]
WriteCall(page_id, data) == [kind |-> "write", page_id |-> page_id, data |-> data]
ReadCall(page_id) == [kind |-> "read", page_id |-> page_id, data |-> 0]

\* The write-back issued only after the frame's bytes were reset: the disk
\* receives zeroed bytes instead of the victim's.
WriteBackAfterReset(s, frame_id) ==
  IF s.pages[frame_id].is_dirty
  THEN [s |-> [s EXCEPT !.disk = WritePage(@, s.pages[frame_id].page_id, PageInit.data),
                        !.pages[frame_id].is_dirty = FALSE],
        io |-> <<WriteCall(s.pages[frame_id].page_id, PageInit.data)>>]
  ELSE [s |-> s, io |-> << >>]

\* lines 53-56 / 102-105: write the victim back when it is dirty.
\* Result [s, io].
WriteBackIfDirty(s, frame_id) ==
  IF s.pages[frame_id].is_dirty
  THEN [s |-> [s EXCEPT !.disk = WritePage(@, s.pages[frame_id].page_id, s.pages[frame_id].data),
                        !.pages[frame_id].is_dirty = FALSE],
        io |-> <<WriteCall(s.pages[frame_id].page_id, s.pages[frame_id].data)>>]
  ELSE [s |-> s, io |-> << >>]

\* lines 44-58 / 90-107: a frame from the free list's back, else a victim of
\* the replacer, written back when dirty and dropped from the page table.
\* Result [ok, frame_id, s, io, evicted].
ObtainFrame(s) ==
  IF s.free_list # << >>
  THEN [ok |-> TRUE, frame_id |-> s.free_list[Len(s.free_list)],
        s |-> [s EXCEPT !.free_list = SubSeq(@, 1, Len(@) - 1)],
        io |-> << >>, evicted |-> FALSE]
  ELSE LET ev == Evict(s.replacer)
       IN  IF ~ev.found
           THEN [ok |-> FALSE, frame_id |-> ev.frame_id, s |-> s, io |-> << >>, evicted |-> FALSE]
           ELSE LET f  == ev.frame_id
                    wb == WriteBackIfDirty([s EXCEPT !.replacer = ev.r], f)
                IN  [ok |-> TRUE, frame_id |-> f,
                     s |-> [wb.s EXCEPT !.page_table[wb.s.pages[f].page_id] = NoFrame],
                     io |-> wb.io, evicted |-> TRUE]

\* lines 69-70 / 83-84 / 119-120: RecordAccess then SetEvictable(false),
\* ending the handler at the first call that throws or dies.
AccessAndPin(s, frame_id, io) ==
  { IF ra.res # "ok" THEN Out([s EXCEPT !.replacer = ra.r], ra.res, NoFrame, io)
    ELSE LET se == SetEvictable(ra.r, frame_id, FALSE)
         IN  IF se.res # "ok" THEN Out([s EXCEPT !.replacer = se.r], se.res, NoFrame, io)
             ELSE Out([s EXCEPT !.replacer = se.r], "page", frame_id, io)
    : ra \in RecordAccess(s.replacer, frame_id) }

\* lines 60-67: the new page's table entry and metadata, bytes zeroed
InstallNew(s, new_page_id, frame_id) ==
  [s EXCEPT !.page_table[new_page_id] = frame_id,
            !.pages[frame_id] = [page_id |-> new_page_id, data |-> 0,
                                 is_dirty |-> FALSE, pin_count |-> 1]]

NewPage(s0) ==
  LET new_page_id == s0.next_page_id
      s  == [s0 EXCEPT !.next_page_id = @ + 1]
      of == ObtainFrame(s)
  IN  IF ~of.ok THEN {Out(s, "none", NoFrame, << >>)}
      ELSE AccessAndPin(InstallNew(of.s, new_page_id, of.frame_id), of.frame_id, of.io)
             \cup MayFault(s0, of.frame_id)

\* lines 109-117: the fetched page's table entry and metadata, bytes read
\* from disk
InstallFetched(s, page_id, frame_id) ==
  [s EXCEPT !.page_table[page_id] = frame_id,
            !.pages[frame_id] = [page_id |-> page_id, data |-> ReadPage(s.disk, page_id),
                                 is_dirty |-> FALSE, pin_count |-> 1]]

FetchPage(s, page_id) ==
  IF s.page_table[page_id] # NoFrame
  THEN LET f == s.page_table[page_id]
       IN  AccessAndPin([s EXCEPT !.pages[f].pin_count = @ + 1], f, << >>)
             \cup MayFault(s, f)
  ELSE LET of == ObtainFrame(s)
       IN  IF ~of.ok THEN {Out(s, "none", NoFrame, << >>)}
           ELSE AccessAndPin(InstallFetched(of.s, page_id, of.frame_id), of.frame_id,
                             of.io \o <<ReadCall(page_id)>>)
                  \cup MayFault(s, of.frame_id)

\* line 134: the dirty flag after an unpin with hint is_dirty
UnpinDirty(old_dirty, is_dirty) == is_dirty

UnpinPage(s, page_id, is_dirty) ==
  IF page_id = INVALID_PAGE_ID THEN {Out(s, "false", NoFrame, << >>)}
  ELSE IF s.page_table[page_id] = NoFrame THEN {Out(s, "false", NoFrame, << >>)}
  ELSE LET f  == s.page_table[page_id]
           s1 == [s EXCEPT !.pages[f].is_dirty = UnpinDirty(@, is_dirty)]
       IN  (IF s1.pages[f].pin_count > 0
            THEN LET s2 == [s1 EXCEPT !.pages[f].pin_count = @ - 1]
                 IN  IF s2.pages[f].pin_count = 0
                     THEN LET se == SetEvictable(s2.replacer, f, TRUE)
                          IN  IF se.res # "ok" THEN {Out(s2, se.res, NoFrame, << >>)}
                              ELSE {Out([s2 EXCEPT !.replacer = se.r], "true", f, << >>)}
                     ELSE {Out(s2, "true", f, << >>)}
            ELSE {Out(s1, "false", NoFrame, << >>)})
           \cup MayFault(s, f)

FlushPage(s, page_id) ==
  IF page_id = INVALID_PAGE_ID \/ s.page_table[page_id] = NoFrame
  THEN {Out(s, "false", NoFrame, << >>)}
  ELSE LET f == s.page_table[page_id]
       IN  {Out([s EXCEPT !.disk = WritePage(@, s.pages[f].page_id, s.pages[f].data),
                          !.pages[f].is_dirty = FALSE],
                "true", f, <<WriteCall(s.pages[f].page_id, s.pages[f].data)>>)}
           \cup MayFault(s, f)

\* lines 160-165: the loop from frame i on. Result [s, io].
RECURSIVE FlushFrom(_, _, _)
FlushFrom(s, io, i) ==
  IF i >= pool_size THEN [s |-> s, io |-> io]
  ELSE IF s.pages[i].is_dirty /\ s.pages[i].page_id # INVALID_PAGE_ID
       THEN FlushFrom([s EXCEPT !.disk = WritePage(@, s.pages[i].page_id, s.pages[i].data),
                                !.pages[i].is_dirty = FALSE],
                      Append(io, WriteCall(s.pages[i].page_id, s.pages[i].data)), i + 1)
       ELSE FlushFrom(s, io, i + 1)

FlushAllPages(s) ==
  LET r == FlushFrom(s, << >>, 0) IN {Out(r.s, "void", NoFrame, r.io)}

\* DeletePage, statement by statement (the function takes no latch).
\* lines 179-188: defensive write-back, then the frame's metadata cleared.
\* Result [s, io].
DeleteReset(s, frame_id) ==
  LET wb == WriteBackIfDirty(s, frame_id)
  IN  [s |-> [wb.s EXCEPT !.pages[frame_id] = PageInit], io |-> wb.io]

\* line 190
DeleteErase(s, page_id) == [s EXCEPT !.page_table[page_id] = NoFrame]

\* line 192: what DeletePage appends to the free list
DeleteFreed(page_id, frame_id) == page_id

DeletePush(s, page_id, frame_id) ==
  [s EXCEPT !.free_list = Append(@, DeleteFreed(page_id, frame_id))]

\* lines 170, 175, 194: the values DeletePage returns
DeleteAbsent == "true"
DeletePinned == "false"
DeleteDone == "false"

DeletePage(s, page_id) ==
  IF s.page_table[page_id] = NoFrame THEN {Out(s, DeleteAbsent, NoFrame, << >>)}
  ELSE LET f == s.page_table[page_id]
       IN  (IF s.pages[f].pin_count # 0 THEN {Out(s, DeletePinned, NoFrame, << >>)}
            ELSE LET rs == DeleteReset(s, f)
                     s2 == DeleteErase(rs.s, page_id)
                 IN  { IF rm.res # "ok"
                       THEN Out([s2 EXCEPT !.replacer = rm.r], rm.res, NoFrame, rs.io)
                       ELSE Out(DeletePush([s2 EXCEPT !.replacer = rm.r], page_id, f),
                                DeleteDone, f, rs.io)
                       : rm \in Remove(s2.replacer, f) })
           \cup MayFault(s, f)

\* =================================================================
\* Trie (src/src/primer/trie.cpp)
\* =================================================================
\* Nodes live in a store indexed from 1; the null shared_ptr is NullNode. A
\* node is [children, is_value_node, value]; children maps a character to a
\* node or to NullNode when the map has no entry.
NullNode == 0
NoValue == 0
Chars == 1 .. MaxChar
Values == 1 .. MaxVal
Keys == UNION {[1 .. n -> Chars] : n \in 0 .. MaxKeyLen}

NoChildren == [c \in Chars |-> NullNode]
PlainNode(children) == [children |-> children, is_value_node |-> FALSE, value |-> NoValue]
ValueNode(children, value) == [children |-> children, is_value_node |-> TRUE, value |-> value]
\* A children map that never reports itself empty.
NeverEmpty(n) == FALSE

ChildrenEmpty(n) == \A c \in Chars : n.children[c] = NullNode

\* make_shared: the new node's index with the store that holds it
Alloc(heap, n) == [heap |-> Append(heap, n), node |-> Len(heap) + 1]

\* The node itself handed back in place of a copy.
ShareNode(heap, node) == [heap |-> heap, node |-> node]

\* TrieNode::Clone / TrieNodeWithValue::Clone: a copy of the node, sharing
\* its children
Clone(heap, node) == Alloc(heap, heap[node])

\* lines 8-34
RECURSIVE GetWalk(_, _, _, _)
GetWalk(heap, cur, key, i) ==
  IF i > Len(key)
  THEN IF heap[cur].is_value_node THEN heap[cur].value ELSE NoValue
  ELSE IF heap[cur].children[key[i]] = NullNode THEN NoValue
       ELSE GetWalk(heap, heap[cur].children[key[i]], key, i + 1)

Get(heap, root, key) ==
  IF root = NullNode THEN NoValue ELSE GetWalk(heap, root, key, 1)

\* lines 60-85: the walk from character i on, ptr being a node this Put
\* created. Result [heap, root].
RECURSIVE PutWalk(_, _, _, _, _, _)
PutWalk(heap, root, ptr, key, i, value) ==
  LET child == heap[ptr].children[key[i]]
  IN  IF i < Len(key)
      THEN LET a == IF child = NullNode THEN Alloc(heap, PlainNode(NoChildren))
                    ELSE Clone(heap, child)
           IN  PutWalk([a.heap EXCEPT ![ptr].children[key[i]] = a.node],
                       root, a.node, key, i + 1, value)
      ELSE LET a == IF child = NullNode THEN Alloc(heap, ValueNode(NoChildren, value))
                    ELSE Alloc(heap, ValueNode(heap[child].children, value))
           IN  [heap |-> [a.heap EXCEPT ![ptr].children[key[i]] = a.node], root |-> root]

\* lines 37-86. Result [heap, root].
Put(heap, root_, key, value) ==
  LET r0  == IF root_ = NullNode THEN Alloc(heap, PlainNode(NoChildren))
             ELSE [heap |-> heap, node |-> root_]
      ptr == Clone(r0.heap, r0.node)
  IN  IF key = << >>
      THEN LET a == Alloc(ptr.heap, ValueNode(ptr.heap[ptr.node].children, value))
           IN  [heap |-> a.heap, root |-> a.node]
      ELSE PutWalk(ptr.heap, ptr.node, ptr.node, key, 1, value)

\* lines 88-121, index counting the characters already consumed. Result
\* [res, heap, node]; dereferencing a null root ends the process.
RECURSIVE Dfs(_, _, _, _)
Dfs(heap, root, key, index) ==
  IF root = NullNode THEN [res |-> "crash", heap |-> heap, node |-> NullNode]
  ELSE IF index = Len(key)
  THEN IF ChildrenEmpty(heap[root]) THEN [res |-> "ok", heap |-> heap, node |-> NullNode]
       ELSE LET a == Alloc(heap, PlainNode(heap[root].children))
            IN  [res |-> "ok", heap |-> a.heap, node |-> a.node]
  ELSE LET c == key[index + 1]
       IN  IF heap[root].children[c] # NullNode
           THEN LET new_node == Dfs(heap, heap[root].children[c], key, index + 1)
                    node     == Clone(new_node.heap, root)
                IN  IF new_node.res # "ok" THEN new_node
                    ELSE IF new_node.node # NullNode
                    THEN [res |-> "ok",
                          heap |-> [node.heap EXCEPT ![node.node].children[c] = new_node.node],
                          node |-> node.node]
                    ELSE LET h2 == [node.heap EXCEPT ![node.node].children[c] = NullNode]
                         IN  IF ~h2[node.node].is_value_node /\ ChildrenEmpty(h2[node.node])
                             THEN [res |-> "ok", heap |-> h2, node |-> NullNode]
                             ELSE [res |-> "ok", heap |-> h2, node |-> node.node]
           ELSE [res |-> "ok", heap |-> heap, node |-> root]

\* lines 123-129. Result [res, heap, root].
TrieRemove(heap, root_, key) ==
  LET d == Dfs(heap, root_, key, 0)
  IN  [res |-> d.res, heap |-> d.heap, root |-> d.node]

\* The client's view: the node store, the Trie it holds (root), the Trie it
\* held before the last call (prev), and the calls made.
TrieInit == [heap |-> << >>, root |-> NullNode, prev |-> NullNode, nops |-> 0]

\* =================================================================
\* State machine
\* =================================================================
Cur ==
  [ page_table |-> page_table, pages |-> pages, free_list |-> free_list,
    replacer |-> replacer, disk |-> disk, next_page_id |-> next_page_id ]

\* The client's count of the pins it holds on each resident page, kept
\* within -1 .. MaxPin + 1 (pin_count_ itself stays within 0 .. MaxPin).
NextPins(pt, op, page_id, ret) ==
  [q \in PageIds |->
     IF pt[q] = NoFrame THEN 0
     ELSE LET base == IF page_table[q] = NoFrame THEN 0 ELSE pins[q]
          IN  IF q = page_id /\ op \in {"NewPage", "FetchPage"} /\ ret = "page"
              THEN Min(base + 1, MaxPin + 1)
              ELSE IF q = page_id /\ op = "UnpinPage" /\ ret = "true"
              THEN Max(base - 1, -1)
              ELSE base]

SetPool(s) ==
  /\ page_table' = s.page_table
  /\ pages' = s.pages
  /\ free_list' = s.free_list
  /\ replacer' = s.replacer
  /\ disk' = s.disk
  /\ next_page_id' = s.next_page_id

Apply(o, op, page_id, is_dirty) ==
  /\ SetPool(o.s)
  /\ crashed' = (o.ret = "crash")
  /\ pins' = NextPins(o.s.page_table, op, page_id, o.ret)

NoLocals == [page_id |-> INVALID_PAGE_ID, frame_id |-> NoFrame]

Init ==
  /\ page_table = PoolInit.page_table
  /\ pages = PoolInit.pages
  /\ free_list = PoolInit.free_list
  /\ replacer = PoolInit.replacer
  /\ disk = PoolInit.disk
  /\ next_page_id = PoolInit.next_page_id
  /\ crashed = FALSE
  /\ pins = [q \in PageIds |-> 0]
  /\ first_order = << >>
  /\ trie = TrieInit
  /\ ndelete = 0
  /\ dpc = "idle"
  /\ dl = NoLocals

NewPageUpTo(max_page) ==
  /\ ~crashed
  /\ next_page_id < max_page
  /\ \E o \in NewPage(Cur) : Apply(o, "NewPage", next_page_id, FALSE)
  /\ UNCHANGED <<first_order, trie, ndelete, dpc, dl>>

\* The client fetches pages that NewPage has allocated.
FetchPageIn(ids) ==
  /\ ~crashed
  /\ \E p \in ids :
       /\ p < next_page_id
       /\ page_table[p] # NoFrame => pages[page_table[p]].pin_count < MaxPin
       /\ \E o \in FetchPage(Cur, p) : Apply(o, "FetchPage", p, FALSE)
  /\ UNCHANGED <<first_order, trie, ndelete, dpc, dl>>

UnpinPageIn(ids) ==
  /\ ~crashed
  /\ \E p \in ids, d \in BOOLEAN :
       \E o \in UnpinPage(Cur, p, d) : Apply(o, "UnpinPage", p, d)
  /\ UNCHANGED <<first_order, trie, ndelete, dpc, dl>>

CallNewPage == NewPageUpTo(MaxPage)
CallFetchPage == FetchPageIn(PageIds)
CallUnpinPage == UnpinPageIn(DiskIds)

CallFlushPage ==
  /\ ~crashed
  /\ \E p \in DiskIds : \E o \in FlushPage(Cur, p) : Apply(o, "FlushPage", p, FALSE)
  /\ UNCHANGED <<first_order, trie, ndelete, dpc, dl>>

CallFlushAllPages ==
  /\ ~crashed
  /\ \E o \in FlushAllPages(Cur) : Apply(o, "FlushAllPages", INVALID_PAGE_ID, FALSE)
  /\ UNCHANGED <<first_order, trie, ndelete, dpc, dl>>

\* Whether DeletePage(page_id) gets past lines 169-176.
DeleteProceeds(s, page_id) ==
  /\ s.page_table[page_id] # NoFrame
  /\ s.pages[s.page_table[page_id]].pin_count = 0

CallDeletePage ==
  /\ ~crashed
  /\ \E p \in DiskIds :
       /\ DeleteProceeds(Cur, p) => ndelete < MaxDelete
       /\ ndelete' = IF DeleteProceeds(Cur, p) THEN ndelete + 1 ELSE ndelete
       /\ \E o \in DeletePage(Cur, p) : Apply(o, "DeletePage", p, FALSE)
  /\ UNCHANGED <<first_order, trie, dpc, dl>>

\* The holder of a pin writes the page's bytes through the Page* it was given.
ClientWrite ==
  /\ ~crashed
  /\ \E p \in PageIds \cap (0 .. MaxWritePage), d \in 1 .. MaxData :
       /\ page_table[p] # NoFrame
       /\ pins[p] > 0
       /\ pages' = [pages EXCEPT ![page_table[p]].data = d]
  /\ UNCHANGED <<page_table, free_list, replacer, disk, next_page_id, crashed, pins,
                 first_order, trie, ndelete, dpc, dl>>

Next ==
  \/ CallNewPage
  \/ CallFetchPage
  \/ CallUnpinPage
  \/ CallFlushPage
  \/ CallFlushAllPages
  \/ CallDeletePage
  \/ ClientWrite

Spec == Init /\ [][Next]_vars

\* ----------------------------------------------------------------
\* SpecR: the replacer alone
\* ----------------------------------------------------------------
PoolVars == <<page_table, pages, free_list, next_page_id, disk, pins, trie, ndelete, dpc, dl>>

\* first_order after a replacer call: frames that left are dropped, a frame
\* accessed for the first time is appended.
NextOrder(r0, r1) ==
  SelectSeq(first_order, LAMBDA f : r1.use_count[f] > 0)
    \o (IF \E f \in RFrames : r0.use_count[f] = 0 /\ r1.use_count[f] > 0
        THEN <<CHOOSE f \in RFrames : r0.use_count[f] = 0 /\ r1.use_count[f] > 0>>
        ELSE << >>)

SetReplacer(r) ==
  /\ replacer' = r
  /\ first_order' = NextOrder(replacer, r)
  /\ UNCHANGED PoolVars

RArgs == 0 .. pool_size + 1     \* frame ids a caller passes, one past the accepted ones included

RRecordAccess ==
  /\ ~crashed
  /\ \E f \in RArgs : \E o \in RecordAccess(replacer, f) :
       /\ SetReplacer(o.r)
       /\ crashed' = (o.res = "crash")

RSetEvictable ==
  /\ ~crashed
  /\ \E f \in RArgs, b \in BOOLEAN : SetReplacer(SetEvictable(replacer, f, b).r)
  /\ UNCHANGED crashed

REvict ==
  /\ ~crashed
  /\ SetReplacer(Evict(replacer).r)
  /\ UNCHANGED crashed

RRemove ==
  /\ ~crashed
  /\ \E f \in RArgs : \E o \in Remove(replacer, f) :
       /\ SetReplacer(o.r)
       /\ crashed' = (o.res = "crash")

NextR == RRecordAccess \/ RSetEvictable \/ REvict \/ RRemove

SpecR == Init /\ [][NextR]_vars

\* ----------------------------------------------------------------
\* SpecConc: one thread calls NewPage, FetchPage and UnpinPage, each a
\* critical section on latch_ (lines 39, 76, 125); another thread is inside
\* DeletePage, which takes no latch (lines 168-195), so its statements
\* interleave with the first thread's calls.
\* ----------------------------------------------------------------
ConcIds == 0 .. MaxConcPage

DSet(s) ==
  /\ SetPool(s)
  /\ pins' = NextPins(s.page_table, "DeletePage", INVALID_PAGE_ID, "void")
  /\ UNCHANGED <<first_order, trie, ndelete>>

DBegin ==
  /\ ~crashed /\ dpc = "idle" /\ ndelete < MaxDelete
  /\ \E p \in ConcIds : dl' = [page_id |-> p, frame_id |-> NoFrame]
  /\ dpc' = "find"
  /\ ndelete' = ndelete + 1
  /\ UNCHANGED <<page_table, pages, free_list, replacer, next_page_id, disk, crashed,
                 pins, first_order, trie>>

\* lines 169-171
DFind ==
  /\ ~crashed /\ dpc = "find"
  /\ dpc' = IF page_table[dl.page_id] = NoFrame THEN "idle" ELSE "pin"
  /\ dl' = IF page_table[dl.page_id] = NoFrame THEN NoLocals ELSE dl
  /\ UNCHANGED <<page_table, pages, free_list, replacer, next_page_id, disk, crashed,
                 pins, first_order, trie, ndelete>>

\* lines 173-176; page_table_[page_id] inserts an entry for frame 0 when the
\* page has left the table since line 169
DPin ==
  /\ ~crashed /\ dpc = "pin"
  /\ LET f == IF page_table[dl.page_id] = NoFrame THEN 0 ELSE page_table[dl.page_id]
     IN  /\ DSet([Cur EXCEPT !.page_table[dl.page_id] = f])
         /\ dl' = IF pages[f].pin_count # 0 THEN NoLocals ELSE [dl EXCEPT !.frame_id = f]
         /\ dpc' = IF pages[f].pin_count # 0 THEN "idle" ELSE "reset"
  /\ UNCHANGED crashed

\* lines 179-188
DReset ==
  /\ ~crashed /\ dpc = "reset"
  /\ DSet(DeleteReset(Cur, dl.frame_id).s)
  /\ dpc' = "erase"
  /\ UNCHANGED <<crashed, dl>>

\* line 190
DErase ==
  /\ ~crashed /\ dpc = "erase"
  /\ DSet(DeleteErase(Cur, dl.page_id))
  /\ dpc' = "remove"
  /\ UNCHANGED <<crashed, dl>>

\* line 191
DRemove ==
  /\ ~crashed /\ dpc = "remove"
  /\ \E rm \in Remove(replacer, dl.frame_id) :
       /\ DSet([Cur EXCEPT !.replacer = rm.r])
       /\ crashed' = (rm.res = "crash")
       /\ dpc' = IF rm.res = "ok" THEN "push" ELSE "idle"
       /\ dl' = IF rm.res = "ok" THEN dl ELSE NoLocals

\* lines 192-194
DPush ==
  /\ ~crashed /\ dpc = "push"
  /\ DSet(DeletePush(Cur, dl.page_id, dl.frame_id))
  /\ dpc' = "idle"
  /\ dl' = NoLocals
  /\ UNCHANGED crashed

ConcNewPage == NewPageUpTo(MaxConcPage + 1)
ConcFetchPage == FetchPageIn(ConcIds)
ConcUnpinPage == UnpinPageIn(ConcIds)

NextConc ==
  \/ ConcNewPage
  \/ ConcFetchPage
  \/ ConcUnpinPage
  \/ DBegin
  \/ DFind
  \/ DPin
  \/ DReset
  \/ DErase
  \/ DRemove
  \/ DPush

SpecConc == Init /\ [][NextConc]_vars

\* =================================================================
\* SpecT: one client building Tries by Put and Remove
\* =================================================================
NotTrie == <<page_table, pages, free_list, replacer, next_page_id, disk, pins,
             first_order, ndelete, dpc, dl>>

TPut ==
  /\ ~crashed /\ trie.nops < MaxTrieOps
  /\ \E key \in Keys, value \in Values :
       LET o == Put(trie.heap, trie.root, key, value)
       IN  trie' = [heap |-> o.heap, root |-> o.root, prev |-> trie.root,
                    nops |-> trie.nops + 1]
  /\ UNCHANGED crashed
  /\ UNCHANGED NotTrie

TRemove ==
  /\ ~crashed /\ trie.nops < MaxTrieOps
  /\ \E key \in Keys :
       LET o == TrieRemove(trie.heap, trie.root, key)
       IN  /\ trie' = IF o.res = "ok"
                      THEN [heap |-> o.heap, root |-> o.root, prev |-> trie.root,
                            nops |-> trie.nops + 1]
                      ELSE trie
           /\ crashed' = (o.res = "crash")
  /\ UNCHANGED NotTrie

NextT == TPut \/ TRemove

SpecT == Init /\ [][NextT]_vars

\* =================================================================
\* Properties
\* =================================================================
Resident(s, p) == s.page_table[p] # NoFrame
Returned(o) == o.ret \notin {"crash", "throw"}

\* Calls the client can make in the current state, with their outcomes.
NewPageOutcomes == IF next_page_id < MaxPage /\ ~crashed THEN NewPage(Cur) ELSE {}
FetchOutcomes(p) == IF crashed \/ p >= next_page_id THEN {} ELSE FetchPage(Cur, p)
UnpinOutcomes(p, d) == IF crashed THEN {} ELSE UnpinPage(Cur, p, d)
DeleteOutcomes(p) == IF crashed THEN {} ELSE DeletePage(Cur, p)

\* C1: residency agreement. For every page id p and frame f in [0, N):
\* page_table[p] = f exactly when frames[f].page_id = p.
C1_ResidencyAgreement ==
  ~crashed =>
    \A p \in PageIds, f \in Frames : (page_table[p] = f) <=> (pages[f].page_id = p)

\* C2: new_page and fetch_page of a non-resident page return none only when
\* the free list is empty and no resident page is at pin_count = 0: whenever
\* the free list is non-empty or some resident page has been unpinned down to
\* pin_count = 0, the call does not return none.
Available(s) ==
  \/ s.free_list # << >>
  \/ \E p \in PageIds : Resident(s, p) /\ s.pages[s.page_table[p]].pin_count = 0

C2_NoneOnlyWhenFull ==
  Available(Cur) =>
    /\ \A o \in NewPageOutcomes : o.ret # "none"
    /\ \A p \in PageIds : ~Resident(Cur, p) => \A o \in FetchOutcomes(p) : o.ret # "none"

\* C3: a pinned frame is never reused. While frame f holds a page with
\* pin_count > 0, no new_page, fetch_page of another page or delete_page
\* changes frames[f] or hands f out.
Pinned(f) == pages[f].page_id # INVALID_PAGE_ID /\ pages[f].pin_count > 0

Keeps(o, f) == Returned(o) => o.s.pages[f] = pages[f] /\ o.frame # f

C3_PinnedFrameNotReused ==
  \A f \in Frames : Pinned(f) =>
    /\ \A o \in NewPageOutcomes : Keeps(o, f)
    /\ \A q \in PageIds \ {pages[f].page_id} : \A o \in FetchOutcomes(q) : Keeps(o, f)
    /\ \A q \in PageIds : \A o \in DeleteOutcomes(q) : Returned(o) => o.s.pages[f] = pages[f]

\* C4: unpin_page combines the dirty flag by OR: after unpin_page(p, hint)
\* succeeds, dirty(p) = old dirty(p) OR hint.
C4_UnpinOrsDirty ==
  \A p \in PageIds, hint \in BOOLEAN : \A o \in UnpinOutcomes(p, hint) :
    o.ret = "true" =>
      o.s.pages[page_table[p]].is_dirty = (pages[page_table[p]].is_dirty \/ hint)

\* C5: dirty writeback precedes reuse. Whenever new_page or fetch_page takes
\* a victim frame whose dirty flag is set, the disk manager receives
\* write_page(old page id, the frame's current bytes) before the bytes are
\* reset or overwritten by read_page for the incoming page, and the dirty
\* flag is then cleared; a victim whose dirty flag is clear causes no write.
Victim == Evict(replacer)
TakesVictim == free_list = << >> /\ Victim.found
VictimWrittenFirst(o, reads) ==
  LET old == pages[Victim.frame_id]
  IN  IF old.is_dirty
      THEN /\ o.io = <<WriteCall(old.page_id, old.data)>> \o reads
           /\ old.page_id \in PageIds => o.s.disk[old.page_id] = old.data
           /\ ~o.s.pages[Victim.frame_id].is_dirty
      ELSE /\ o.io = reads
           /\ o.s.disk = disk
C5_DirtyWritebackPrecedesReuse ==
  TakesVictim =>
    /\ \A o \in NewPageOutcomes : o.ret # "crash" => VictimWrittenFirst(o, << >>)
    /\ \A p \in PageIds : ~Resident(Cur, p) =>
         \A o \in FetchOutcomes(p) :
           o.ret # "crash" =>
             /\ VictimWrittenFirst(o, <<ReadCall(p)>>)
             /\ o.s.pages[Victim.frame_id].data = disk[p]

\* A dirty victim with bytes other than zero is taken by fetch_page: one
\* write of the victim's bytes, then the read of the incoming page.
C5_DirtyVictimFetched ==
  /\ TakesVictim
  /\ pages[Victim.frame_id].is_dirty
  /\ pages[Victim.frame_id].data # PageInit.data
  /\ \E p \in PageIds : ~Resident(Cur, p) /\ \E o \in FetchOutcomes(p) :
       /\ o.ret = "page"
       /\ o.frame = Victim.frame_id
       /\ o.io = <<WriteCall(pages[Victim.frame_id].page_id, pages[Victim.frame_id].data),
                   ReadCall(p)>>

\* C6: pin discipline. For every resident page p, pin_count(p) equals the
\* number of new_page/fetch_page calls that returned p's frame minus the
\* number of unpin_page(p, _) calls that returned true since p became
\* resident; pin_count is never negative, and the frame is evictable in the
\* replacer exactly when unpin_page has brought pin_count to 0.
C6_PinDiscipline ==
  \A p \in PageIds :
    (~crashed /\ Resident(Cur, p)) =>
      LET f == page_table[p]
      IN  /\ pages[f].pin_count = pins[p]
          /\ pages[f].pin_count >= 0
          /\ f \in RFrames => (replacer.is_accessible[f] <=> pages[f].pin_count = 0)

\* C7: unpin_page(p, hint) returns false when p is the sentinel page id, when
\* p is not resident, or when p is resident with pin_count = 0, and in each
\* of these cases it leaves the whole pool state unchanged, p's dirty flag
\* included.
UnpinMustFail(p) ==
  \/ p = INVALID_PAGE_ID
  \/ ~Resident(Cur, p)
  \/ page_table[p] \in Frames /\ pages[page_table[p]].pin_count = 0
C7_FailedUnpinChangesNothing ==
  \A p \in DiskIds, hint \in BOOLEAN :
    UnpinMustFail(p) =>
      \A o \in UnpinOutcomes(p, hint) : o.ret = "false" /\ o.s = Cur

\* C8: delete_page(p) returns true when p is not resident, false when p is
\* resident with pin_count > 0 (p stays resident), and true when p is
\* resident with pin_count = 0 and has been removed from the pool.
C8_DeleteResult ==
  \A p \in PageIds : \A o \in DeleteOutcomes(p) :
    Returned(o) =>
      IF ~Resident(Cur, p) THEN o.ret = "true"
      ELSE IF pages[page_table[p]].pin_count > 0
           THEN o.ret = "false" /\ o.s.page_table[p] = page_table[p]
           ELSE o.ret = "true" /\ ~Resident(o.s, p)

\* C9: every public operation, delete_page included, is one critical section
\* on the pool's latch: once delete_page has looked its page up, no step of
\* another operation comes between its steps on the page table, the frame
\* metadata, the replacer and the free list.
DeleteInside == {"pin", "reset", "erase", "remove", "push"}
C9_DeleteIsCriticalSection == [][(dpc \in DeleteInside) => (dpc' # dpc)]_vars

\* C10: LRU-K victim order. Evict returns an evictable frame with
\* use_count < K whenever one exists, before any frame with use_count >= K,
\* and among the evictable frames with use_count < K the one whose first
\* access since it last left the replacer is the oldest.
SubKEvictable(f) ==
  /\ replacer.use_count[f] > 0
  /\ replacer.use_count[f] < replacer_k
  /\ replacer.is_accessible[f]
C10_VictimOrder ==
  LET cand == SelectSeq(first_order, SubKEvictable)
  IN  (~crashed /\ cand # << >>) =>
        /\ Evict(replacer).found
        /\ Evict(replacer).frame_id = cand[1]

\* C11: replacer size accuracy. After any sequence of record_access,
\* set_evictable, evict and remove, size() equals the number of frames whose
\* evictable flag is set and whose use_count > 0; set_evictable on a frame
\* with use_count = 0 changes nothing, and set_evictable with the flag the
\* frame already has leaves size() unchanged.
EvictableTracked(r) == {f \in RFrames : r.is_accessible[f] /\ r.use_count[f] > 0}
C11_SizeAccuracy ==
  /\ Size(replacer) = Cardinality(EvictableTracked(replacer))
  /\ \A f \in RFrames, b \in BOOLEAN :
       LET o == SetEvictable(replacer, f, b)
       IN  /\ replacer.use_count[f] = 0 => o.r = replacer
           /\ replacer.is_accessible[f] = b => Size(o.r) = Size(replacer)
           /\ Size(o.r) = Cardinality(EvictableTracked(o.r))

\* Two frames are evictable and counted, next to a tracked frame that is not
\* evictable.
C11_TwoEvictableOnePinned ==
  /\ ~crashed
  /\ Size(replacer) = 2
  /\ Cardinality(EvictableTracked(replacer)) = 2
  /\ \E f \in RFrames : replacer.use_count[f] > 0 /\ ~replacer.is_accessible[f]

\* C12: record_access(frame_id) on a replacer built for N frames rejects
\* every frame_id >= N, frame_id = N included, and leaves the replacer state
\* unchanged; only frame ids in [0, N) are ever tracked.
C12_RecordAccessRejects ==
  ~crashed =>
    /\ \A f \in RArgs :
         f >= pool_size =>
           \A o \in RecordAccess(replacer, f) : o.res = "throw" /\ o.r = replacer
    /\ \A f \in RFrames : f >= pool_size => replacer.use_count[f] = 0

\* The Trie the client holds, and what its keys map to.
SameGets(h1, r1, h2, r2) == \A k \in Keys : Get(h1, r1, k) = Get(h2, r2, k)
OldNodesKept(h) == SubSeq(h, 1, Len(trie.heap)) = trie.heap

\* C13: trie persistence. For every trie t0, key k and value v,
\* t1 = t0.put(k, v) satisfies t1.get(k) = v and t1.get(k') = t0.get(k') for
\* every k' # k, while t0 is unchanged: t0.get returns for every key what it
\* returned before the put; the same holds for t0 after t0.remove(k).
C13_TriePersistence ==
  ~crashed =>
    \A k \in Keys :
      /\ \A v \in Values :
           LET t1 == Put(trie.heap, trie.root, k, v)
           IN  /\ Get(t1.heap, t1.root, k) = v
               /\ \A k2 \in Keys \ {k} :
                    Get(t1.heap, t1.root, k2) = Get(trie.heap, trie.root, k2)
               /\ SameGets(t1.heap, trie.root, trie.heap, trie.root)
               /\ SameGets(t1.heap, trie.prev, trie.heap, trie.prev)
               /\ OldNodesKept(t1.heap)
      /\ LET t1 == TrieRemove(trie.heap, trie.root, k)
         IN  /\ SameGets(t1.heap, trie.root, trie.heap, trie.root)
             /\ SameGets(t1.heap, trie.prev, trie.heap, trie.prev)
             /\ OldNodesKept(t1.heap)

\* A put has replaced the value of a key: the earlier Trie still maps the key
\* to the old value, the new Trie to the new one, and both share nodes of one
\* store.
C13_OverwrittenInNewVersion ==
  /\ ~crashed
  /\ trie.prev # NullNode /\ trie.root # trie.prev
  /\ \E k \in Keys :
       /\ Len(k) = MaxKeyLen
       /\ Get(trie.heap, trie.prev, k) # NoValue
       /\ Get(trie.heap, trie.root, k) # NoValue
       /\ Get(trie.heap, trie.root, k) # Get(trie.heap, trie.prev, k)
  /\ \E k \in Keys :
       /\ Get(trie.heap, trie.prev, k) # NoValue
       /\ Get(trie.heap, trie.root, k) = Get(trie.heap, trie.prev, k)

\* Nodes reachable from a root in at most n steps.
RECURSIVE Reach(_, _, _)
Reach(heap, node, n) ==
  IF node = NullNode THEN {}
  ELSE {node} \cup (IF n = 0 THEN {}
                    ELSE UNION {Reach(heap, heap[node].children[c], n - 1) : c \in Chars})
ValuelessLeaf(heap, node) ==
  ~heap[node].is_value_node /\ \A c \in Chars : heap[node].children[c] = NullNode
NoValuelessLeaf(heap, root) ==
  \A n \in Reach(heap, root, MaxKeyLen) : ~ValuelessLeaf(heap, n)

\* C14: trie round-trip. For every trie t, key k (the empty key included)
\* and value v, t.put(k, v).remove(k).get(k) = none; and if k had no value
\* in t, then t.put(k, v).remove(k) gives the same get result as t for every
\* key and contains no value-less leaf node.
C14_TrieRoundTrip ==
  ~crashed =>
    \A k \in Keys, v \in Values :
      LET p == Put(trie.heap, trie.root, k, v)
          r == TrieRemove(p.heap, p.root, k)
      IN  /\ r.res = "ok"
          /\ Get(r.heap, r.root, k) = NoValue
          /\ Get(trie.heap, trie.root, k) = NoValue =>
               /\ SameGets(r.heap, r.root, trie.heap, trie.root)
               /\ NoValuelessLeaf(r.heap, r.root)

\* A key of full length was put next to another key and then removed: the
\* Trie before the remove maps it, the Trie after does not and is not empty.
C14_PutThenRemoved ==
  /\ ~crashed
  /\ trie.nops = MaxTrieOps
  /\ trie.root # NullNode
  /\ \E k \in Keys :
       /\ Len(k) = MaxKeyLen
       /\ Get(trie.heap, trie.prev, k) # NoValue
       /\ Get(trie.heap, trie.root, k) = NoValue
       /\ trie.heap[trie.root].children[k[1]] = NullNode

\* C15: trie remove never fails. For every trie t, the empty trie with no
\* root included, and every key k that has no value in t, t.remove(k)
\* completes without error and returns a trie whose get result equals t's
\* for every key; empty.remove(k) and t.put(k, v).remove(k).remove(k) return
\* an empty trie.
C15_RemoveNeverFails ==
  ~crashed =>
    \A k \in Keys :
      Get(trie.heap, trie.root, k) = NoValue =>
        LET r == TrieRemove(trie.heap, trie.root, k)
        IN  /\ r.res = "ok"
            /\ SameGets(r.heap, r.root, trie.heap, trie.root)
            /\ trie.root = NullNode => r.root = NullNode

\* C16: after delete_page(p) succeeds on a page resident in frame f with
\* pin_count = 0, the frame index f (not the page id p) is appended to the
\* free list, frames[f] has the sentinel page id, pin_count 0 and dirty =
\* false, p is absent from the page table, f is absent from the replacer,
\* and a following new_page or fetch_page obtains exactly frame f.
Untracked(r, f) ==
  /\ r.use_count[f] = 0
  /\ ~r.is_accessible[f]
  /\ f \notin ListFrames(r.history_list) \cup ListFrames(r.cache_list)
C16_DeleteFreesFrame ==
  \A p \in PageIds :
    (Resident(Cur, p) /\ page_table[p] \in Frames /\ pages[page_table[p]].pin_count = 0) =>
      \A o \in DeleteOutcomes(p) :
        Returned(o) =>
          LET f == page_table[p]
          IN  /\ o.s.free_list = Append(free_list, f)
              /\ o.s.pages[f] = PageInit
              /\ ~Resident(o.s, p)
              /\ Untracked(o.s.replacer, f)
              /\ ObtainFrame(o.s).ok /\ ObtainFrame(o.s).frame_id = f

\* C17: frame conservation. Every frame index in [0, N) appears in exactly
\* one of the free list, the replacer's history ring and the replacer's
\* cache ring, at most once; every free-list entry is an index in [0, N) of
\* a frame holding the sentinel page id; a frame is in a ring only if its
\* use_count > 0.
Occurrences(f) ==
  Cardinality({i \in DOMAIN free_list : free_list[i] = f})
    + Cardinality({i \in DOMAIN replacer.history_list : replacer.history_list[i].f = f})
    + Cardinality({i \in DOMAIN replacer.cache_list : replacer.cache_list[i].f = f})
C17_FrameConservation ==
  ~crashed =>
    /\ \A f \in Frames : Occurrences(f) = 1
    /\ \A i \in DOMAIN free_list :
         free_list[i] \in Frames /\ pages[free_list[i]].page_id = INVALID_PAGE_ID
    /\ \A f \in ListFrames(replacer.history_list) \cup ListFrames(replacer.cache_list) :
         replacer.use_count[f] > 0

\* C18: ring membership follows the access count. A frame with
\* 0 < use_count < K is in the history ring and not in the cache ring, a
\* frame with use_count >= K (use_count > K included) is in the cache ring
\* and not in the history ring, and a frame with use_count = 0 is in neither.
C18_RingMembership ==
  ~crashed =>
    \A f \in RFrames :
      LET in_history == f \in ListFrames(replacer.history_list)
          in_cache   == f \in ListFrames(replacer.cache_list)
      IN  /\ (0 < replacer.use_count[f] /\ replacer.use_count[f] < replacer_k)
               => (in_history /\ ~in_cache)
          /\ replacer.use_count[f] >= replacer_k => (in_cache /\ ~in_history)
          /\ replacer.use_count[f] = 0 => (~in_history /\ ~in_cache)

\* C19: the cache ring is LRU by last access. A record_access that takes a
\* frame's use_count above K moves the frame to the front of the cache ring,
\* and the frame remains a candidate for eviction: when it is the only
\* evictable frame, evict returns it.
C19_CacheRingLRU ==
  ~crashed =>
    \A f \in RFrames :
      replacer.use_count[f] >= replacer_k =>
        \A o \in RecordAccess(replacer, f) :
          o.res = "ok" =>
            /\ o.r.cache_list # << >>
            /\ o.r.cache_list[1].f = f
            /\ LET se == SetEvictable(o.r, f, TRUE).r
               IN  EvictableTracked(se) = {f} =>
                     Evict(se).found /\ Evict(se).frame_id = f

\* C20: evict agrees with size(). In every state reachable by record_access,
\* set_evictable, evict and remove, evict returns a victim if and only if
\* size() > 0; a successful evict returns a frame whose evictable flag was
\* set, decreases size() by exactly 1, zeroes that frame's use_count, clears
\* its evictable flag, and leaves every other frame's use_count, evictable
\* flag and ring position unchanged.
RingWithout(l, f) == SelectSeq([i \in DOMAIN l |-> l[i].f], LAMBDA g : g # f)
C20_EvictAgreesWithSize ==
  ~crashed =>
    LET e == Evict(replacer)
        v == e.frame_id
    IN  /\ e.found <=> Size(replacer) > 0
        /\ e.found =>
             /\ replacer.is_accessible[v]
             /\ Size(e.r) = Size(replacer) - 1
             /\ e.r.use_count[v] = 0 /\ ~e.r.is_accessible[v]
             /\ \A g \in RFrames \ {v} :
                  /\ e.r.use_count[g] = replacer.use_count[g]
                  /\ e.r.is_accessible[g] = replacer.is_accessible[g]
             /\ RingWithout(e.r.history_list, v) = RingWithout(replacer.history_list, v)
             /\ RingWithout(e.r.cache_list, v) = RingWithout(replacer.cache_list, v)

====
